---- MODULE Spec2Model ----
(***************************************************************************)
(* Model of the Tegra186 GPIO driver (drivers/gpio/gpio-tegra186.c).       *)
(*                                                                         *)
(* A 32-bit register value is the set of its set bit positions (a subset   *)
(* of 0..31): & is \cap, | is \cup, ~ is complement in 0..31.  Numbers the *)
(* source writes as masks or values are converted with Bits().  Register   *)
(* space is a function from <<window, byte address>> to register values,   *)
(* with the addresses computed exactly as the source computes them.        *)
(***************************************************************************)
EXTENDS Integers, Sequences, FiniteSets, TLC

\* ------------------------------------------------------------------ bounds
\* Number of driver calls explored in one behaviour.
MaxOps == 2

\* ---------------------------------------------------------- register layout
GPIO_ENB_CONFIG_REG == 0
GPIO_ENB_BIT == 1
GPIO_INOUT_BIT == 2
GPIO_TRG_TYPE_BIT_OFFSET == 2
GPIO_TRG_LVL_BIT == 16
GPIO_DEB_FUNC_BIT == 32
GPIO_INT_FUNC_BIT == 64
GPIO_DBC_THRES_REG == 4
GPIO_INPUT_REG == 8
GPIO_OUT_CTRL_REG == 12
GPIO_OUT_VAL_REG == 16
GPIO_INT_CLEAR_REG == 20
GPIO_REG_DIFF == 32
GPIO_SCR_REG == 4
GPIO_SCR_DIFF == 8
GPIO_SCR_SEC_WEN == 268435456
GPIO_SCR_SEC_REN == 134217728
GPIO_SCR_SEC_G1R == 2
GPIO_SCR_SEC_G1W == 512
GPIO_INT_LVL_NO_TRIGGER == 0
GPIO_INT_LVL_LEVEL_TRIGGER == 1
GPIO_INT_LVL_SINGLE_EDGE_TRIGGER == 2
GPIO_INT_LVL_BOTH_EDGE_TRIGGER == 3
TRIGGER_LEVEL_LOW == 0
TRIGGER_LEVEL_HIGH == 1
GPIO_INT_STATUS_OFFSET == 256
GPIO_STATUS_G1 == 4
MAX_GPIO_PORTS == 8
MAX_PORTS == 32
MAX_PINS_PER_PORT == 8

\* Kernel constants the driver uses (linux/irq.h, errno).
IRQ_TYPE_NONE == 0
IRQ_TYPE_EDGE_RISING == 1
IRQ_TYPE_EDGE_FALLING == 2
IRQ_TYPE_EDGE_BOTH == 3
IRQ_TYPE_LEVEL_HIGH == 4
IRQ_TYPE_LEVEL_LOW == 8
IRQ_TYPE_SENSE_MASK == 15
EBUSY == 16
EINVAL == 22
ENOMEM == 12
ENODEV == 19

\* ------------------------------------------------------------ 32-bit values
BitPos == 0..31

\* The register value of a number below 2^31.
Bits(n) == {i \in 0..30 : (n \div (2^i)) % 2 = 1}

BIT(n) == {n}

GPIO_FULL_ACCESS ==
    Bits(GPIO_SCR_SEC_WEN) \cup Bits(GPIO_SCR_SEC_REN)
        \cup Bits(GPIO_SCR_SEC_G1R) \cup Bits(GPIO_SCR_SEC_G1W)

GPIO_PORT(g) == g \div 8
GPIO_PIN(g) == g % 8

\* ------------------------------------------------------------ topology table
\* One row per port A..Z, AA..FF: <<cont_id, cont_index, valid_pins, aon>>,
\* aon = 1 for the TEGRA_AON_GPIO_PORT_INFO rows.
PortRows ==
    << <<2, 0, 7, 0>>, <<3, 0, 7, 0>>, <<3, 1, 7, 0>>, <<3, 2, 6, 0>>,
       <<2, 1, 8, 0>>, <<2, 2, 6, 0>>, <<4, 1, 6, 0>>, <<1, 0, 7, 0>>,
       <<0, 4, 8, 0>>, <<5, 0, 8, 0>>, <<5, 1, 1, 0>>, <<1, 1, 8, 0>>,
       <<5, 3, 6, 0>>, <<0, 0, 7, 0>>, <<0, 1, 4, 0>>, <<4, 0, 7, 0>>,
       <<0, 2, 6, 0>>, <<0, 5, 6, 0>>, <<6, 1, 5, 1>>, <<0, 3, 4, 0>>,
       <<6, 2, 6, 1>>, <<6, 4, 8, 1>>, <<6, 5, 8, 1>>, <<1, 2, 8, 0>>,
       <<1, 3, 7, 0>>, <<6, 7, 4, 1>>, <<6, 6, 8, 1>>, <<2, 3, 2, 0>>,
       <<5, 2, 4, 0>>, <<-1, -1, 0, 0>>, <<6, 3, 3, 1>>, <<6, 0, 5, 1>> >>

TEGRA_GPIO_PORT_INFO(cid, cind, npins) ==
    [cont_id |-> cid, cont_index |-> cind, valid_pins |-> npins,
     reg_index |-> 0,
     scr_offset |-> cid * 4096 + cind * 64,
     reg_offset |-> 65536 + cid * 4096 + cind * 512]

TEGRA_AON_GPIO_PORT_INFO(cid, cind, npins) ==
    [cont_id |-> cid, cont_index |-> cind, valid_pins |-> npins,
     reg_index |-> 1,
     scr_offset |-> cind * 64,
     reg_offset |-> 4096 + cind * 512]

\* tegra_gpio_cinfo[port], port = 0..31
tegra_gpio_cinfo ==
    [port \in 0..(MAX_PORTS - 1) |->
        LET r == PortRows[port + 1]
        IN  IF r[4] = 1 THEN TEGRA_AON_GPIO_PORT_INFO(r[1], r[2], r[3])
            ELSE TEGRA_GPIO_PORT_INFO(r[1], r[2], r[3])]

\* ---------------------------------------------------------------- addresses
\* Address of a per-pin register: tegra_gpio_readl/writel/update.
RegAddr(gpio, reg_offset) ==
    LET port == GPIO_PORT(gpio)
        pin == GPIO_PIN(gpio)
    IN  <<tegra_gpio_cinfo[port].reg_index,
          tegra_gpio_cinfo[port].reg_offset + (GPIO_REG_DIFF * pin) + reg_offset>>

\* Address of the security-configuration register of a pin.
ScrAddr(gpio) ==
    LET port == GPIO_PORT(gpio)
        pin == GPIO_PIN(gpio)
    IN  <<tegra_gpio_cinfo[port].reg_index,
          tegra_gpio_cinfo[port].scr_offset + (pin * GPIO_SCR_DIFF) + GPIO_SCR_REG>>

\* Address of the pending-status register of a port.
StatusAddr(port) ==
    <<tegra_gpio_cinfo[port].reg_index,
      tegra_gpio_cinfo[port].reg_offset + GPIO_INT_STATUS_OFFSET + GPIO_STATUS_G1>>

\* --------------------------------------------------------------- wake table
TEGRA_GPIO(bank, pin) == bank * 8 + pin

\* tegra186_gpio_wakes[i] is element i + 1.
tegra186_gpio_wakes ==
    << TEGRA_GPIO(0, 6), TEGRA_GPIO(0, 2), TEGRA_GPIO(0, 5), TEGRA_GPIO(3, 3),
       TEGRA_GPIO(4, 3), TEGRA_GPIO(6, 3), -EINVAL, TEGRA_GPIO(1, 3),
       TEGRA_GPIO(1, 5), TEGRA_GPIO(2, 0), TEGRA_GPIO(18, 2), TEGRA_GPIO(7, 2),
       TEGRA_GPIO(9, 5), TEGRA_GPIO(9, 6), TEGRA_GPIO(9, 7), TEGRA_GPIO(10, 0),
       TEGRA_GPIO(16, 1), TEGRA_GPIO(5, 4), TEGRA_GPIO(12, 5), TEGRA_GPIO(15, 0),
       TEGRA_GPIO(15, 2), TEGRA_GPIO(15, 1), TEGRA_GPIO(14, 3), TEGRA_GPIO(17, 5),
       -EINVAL, TEGRA_GPIO(18, 3), TEGRA_GPIO(18, 4), TEGRA_GPIO(18, 1),
       TEGRA_GPIO(5, 2), TEGRA_GPIO(31, 0), TEGRA_GPIO(31, 4), TEGRA_GPIO(2, 6),
       TEGRA_GPIO(22, 2), TEGRA_GPIO(22, 5), TEGRA_GPIO(22, 1), TEGRA_GPIO(21, 0),
       TEGRA_GPIO(21, 1), TEGRA_GPIO(21, 2), TEGRA_GPIO(21, 3), TEGRA_GPIO(21, 4),
       TEGRA_GPIO(21, 5), TEGRA_GPIO(30, 0), TEGRA_GPIO(25, 1), TEGRA_GPIO(25, 3),
       TEGRA_GPIO(26, 0), TEGRA_GPIO(26, 1), TEGRA_GPIO(26, 2), TEGRA_GPIO(26, 3),
       TEGRA_GPIO(26, 4), TEGRA_GPIO(26, 5), TEGRA_GPIO(26, 6), TEGRA_GPIO(26, 7),
       TEGRA_GPIO(23, 3), TEGRA_GPIO(23, 7), TEGRA_GPIO(24, 0), TEGRA_GPIO(24, 1),
       TEGRA_GPIO(24, 2), TEGRA_GPIO(24, 5), TEGRA_GPIO(24, 6), TEGRA_GPIO(11, 1),
       TEGRA_GPIO(11, 3), TEGRA_GPIO(11, 4), TEGRA_GPIO(11, 5), TEGRA_GPIO(8, 4),
       TEGRA_GPIO(8, 6), TEGRA_GPIO(25, 0), TEGRA_GPIO(25, 2), TEGRA_GPIO(31, 1),
       TEGRA_GPIO(31, 2), TEGRA_GPIO(31, 3), TEGRA_GPIO(7, 3), TEGRA_GPIO(15, 5),
       -EINVAL, -EINVAL, -EINVAL, -EINVAL,
       -EINVAL, -EINVAL, -EINVAL, -EINVAL,
       -EINVAL, -EINVAL, -EINVAL, -EINVAL,
       -EINVAL, -EINVAL, -EINVAL, -EINVAL,
       -EINVAL, -EINVAL, -EINVAL, -EINVAL,
       -EINVAL, -EINVAL, -EINVAL, -EINVAL >>

WakeSlots == 0..(Len(tegra186_gpio_wakes) - 1)

\* Faulty variant: the slot after the matching one is returned.
tegra186_gpio_to_wake_OffByOne(gpio) ==
    LET hits == {i \in WakeSlots : tegra186_gpio_wakes[i + 1] = gpio}
    IN  IF hits = {} THEN -EINVAL
        ELSE (CHOOSE i \in hits : \A j \in hits : i <= j) + 1

\* First slot whose entry is the pin, -EINVAL when there is none.
tegra186_gpio_to_wake(gpio) ==
    LET hits == {i \in WakeSlots : tegra186_gpio_wakes[i + 1] = gpio}
    IN  IF hits = {} THEN -EINVAL
        ELSE CHOOSE i \in hits : \A j \in hits : i <= j

\* ----------------------------------------------------------- modelled pins
\* A6: wired pin of a present port (wake0); A7: unwired slot of the same
\* port; DD0: slot of the absent port.
Pins == {TEGRA_GPIO(0, 6), TEGRA_GPIO(0, 7), TEGRA_GPIO(29, 0)}

PinRegs ==
    {GPIO_ENB_CONFIG_REG, GPIO_DBC_THRES_REG, GPIO_INPUT_REG,
     GPIO_OUT_CTRL_REG, GPIO_OUT_VAL_REG, GPIO_INT_CLEAR_REG}

\* Every address an operation on a modelled pin can compute.
Addrs ==
    UNION {{RegAddr(g, r) : r \in PinRegs \cup {GPIO_DEB_FUNC_BIT}}
               \cup {ScrAddr(g), StatusAddr(GPIO_PORT(g))} : g \in Pins}

\* ------------------------------------------------------------ register bus
\* A driver call threads a record s: s.mem the register space, s.io the bus
\* transactions and collaborator calls it has made so far, s.handler the
\* dispatch discipline of every interrupt line, s.wake_type the wake-event
\* registry.
Ev(k, a, v) == [k |-> k, a |-> a, v |-> v]

raw_readl(s, a) ==
    [s |-> [s EXCEPT !.io = Append(@, Ev("R", a, {}))], val |-> s.mem[a]]

raw_writel(s, v, a) ==
    [s EXCEPT !.mem = [@ EXCEPT ![a] = v], !.io = Append(@, Ev("W", a, v))]

\* A call of a collaborator (pinctrl, wake registry) with its arguments.
Call(s, name, x, y) == [s EXCEPT !.io = Append(@, Ev(name, <<x, y>>, {}))]

tegra_gpio_readl(s, gpio, reg_offset) == raw_readl(s, RegAddr(gpio, reg_offset))

tegra_gpio_writel(s, val, gpio, reg_offset) ==
    raw_writel(s, val, RegAddr(gpio, reg_offset))

\* Faulty variant: the bits outside the mask are not kept.
tegra_gpio_update_NoKeep(s, gpio, reg_offset, mask, val) ==
    LET r == raw_readl(s, RegAddr(gpio, reg_offset))
        rval == val \cap mask
    IN  raw_writel(r.s, rval, RegAddr(gpio, reg_offset))

tegra_gpio_update(s, gpio, reg_offset, mask, val) ==
    LET r == raw_readl(s, RegAddr(gpio, reg_offset))
        rval == (r.val \ mask) \cup (val \cap mask)
    IN  raw_writel(r.s, rval, RegAddr(gpio, reg_offset))

\* --------------------------------------------------------- accessibility
\* Faulty variant: the wired-pin bound compared with > instead of >=.
is_gpio_accessible_OffByOne(s, offset) ==
    LET port == GPIO_PORT(offset)
        pin == GPIO_PIN(offset)
    IN  IF pin > tegra_gpio_cinfo[port].valid_pins
        THEN [s |-> s, val |-> FALSE]
        ELSE IF tegra_gpio_cinfo[port].cont_id < 0
        THEN [s |-> s, val |-> FALSE]
        ELSE LET r == raw_readl(s, ScrAddr(offset))
             IN  [s |-> r.s,
                  val |-> (r.val \cap GPIO_FULL_ACCESS) = GPIO_FULL_ACCESS]

\* Faulty variant: a wired pin is accessible whatever its security register
\* holds.
is_gpio_accessible_NoScr(s, offset) ==
    LET port == GPIO_PORT(offset)
        pin == GPIO_PIN(offset)
    IN  IF pin >= tegra_gpio_cinfo[port].valid_pins
        THEN [s |-> s, val |-> FALSE]
        ELSE IF tegra_gpio_cinfo[port].cont_id < 0
        THEN [s |-> s, val |-> FALSE]
        ELSE [s |-> raw_readl(s, ScrAddr(offset)).s, val |-> TRUE]

\* Faulty variant: any capability bit is taken for full access.
is_gpio_accessible_AnyBit(s, offset) ==
    LET port == GPIO_PORT(offset)
        pin == GPIO_PIN(offset)
    IN  IF pin >= tegra_gpio_cinfo[port].valid_pins
        THEN [s |-> s, val |-> FALSE]
        ELSE IF tegra_gpio_cinfo[port].cont_id < 0
        THEN [s |-> s, val |-> FALSE]
        ELSE LET r == raw_readl(s, ScrAddr(offset))
             IN  [s |-> r.s, val |-> (r.val \cap GPIO_FULL_ACCESS) # {}]

is_gpio_accessible(s, offset) ==
    LET port == GPIO_PORT(offset)
        pin == GPIO_PIN(offset)
    IN  IF pin >= tegra_gpio_cinfo[port].valid_pins
        THEN [s |-> s, val |-> FALSE]
        ELSE IF tegra_gpio_cinfo[port].cont_id < 0
        THEN [s |-> s, val |-> FALSE]
        ELSE LET r == raw_readl(s, ScrAddr(offset))
             IN  [s |-> r.s,
                  val |-> (r.val \cap GPIO_FULL_ACCESS) = GPIO_FULL_ACCESS]

\* A driver call returns [s |-> the record after it, ret |-> its result];
\* a void function has ret 0.
Ret(s, r) == [s |-> s, ret |-> r]

tegra_gpio_is_enabled(s, gpio) ==
    LET acc == is_gpio_accessible(s, gpio)
    IN  IF acc.val
        THEN LET r1 == tegra_gpio_readl(acc.s, gpio, GPIO_ENB_CONFIG_REG)
                 r2 == tegra_gpio_readl(r1.s, gpio, GPIO_OUT_CTRL_REG)
             IN  Ret(r2.s, 0)
        ELSE Ret(acc.s, 0)

\* ---------------------------------------------------------- line control
\* Faulty variant: the enable bit is written, not merged.
tegra_gpio_enable_Overwrite(s, gpio) ==
    tegra_gpio_writel(s, Bits(1), gpio, GPIO_ENB_CONFIG_REG)

tegra_gpio_enable(s, gpio) ==
    tegra_gpio_update(s, gpio, GPIO_ENB_CONFIG_REG, Bits(1), Bits(1))

tegra_gpio_disable(s, gpio) ==
    tegra_gpio_update(s, gpio, GPIO_ENB_CONFIG_REG, Bits(1), Bits(0))

\* pr: what pinctrl_request_gpio returns when it is called.
tegra_gpio_request(s, offset, pr) ==
    LET acc == is_gpio_accessible(s, offset)
    IN  IF acc.val
        THEN Ret(Call(acc.s, "pinctrl_request_gpio", offset, 0), pr)
        ELSE Ret(acc.s, -EBUSY)

tegra_gpio_free(s, offset) ==
    Ret(tegra_gpio_disable(Call(s, "pinctrl_free_gpio", offset, 0), offset), 0)

\* Faulty variant: tri-state released before the value is committed.
tegra_gpio_set_CtrlFirst(s, offset, value) ==
    LET val == IF value # 0 THEN Bits(1) ELSE Bits(0)
        s1 == tegra_gpio_writel(s, Bits(0), offset, GPIO_OUT_CTRL_REG)
    IN  Ret(tegra_gpio_writel(s1, val, offset, GPIO_OUT_VAL_REG), 0)

tegra_gpio_set(s, offset, value) ==
    LET val == IF value # 0 THEN Bits(1) ELSE Bits(0)
        s1 == tegra_gpio_writel(s, val, offset, GPIO_OUT_VAL_REG)
    IN  Ret(tegra_gpio_writel(s1, Bits(0), offset, GPIO_OUT_CTRL_REG), 0)

\* Faulty variant: the pad level is returned whatever the direction.
tegra_gpio_get_InputOnly(s, offset) ==
    LET r == tegra_gpio_readl(s, offset, GPIO_ENB_CONFIG_REG)
        i == tegra_gpio_readl(r.s, offset, GPIO_INPUT_REG)
    IN  Ret(i.s, IF i.val \cap Bits(1) # {} THEN 1 ELSE 0)

tegra_gpio_get(s, offset) ==
    LET r == tegra_gpio_readl(s, offset, GPIO_ENB_CONFIG_REG)
    IN  IF r.val \cap Bits(GPIO_INOUT_BIT) # {}
        THEN LET o == tegra_gpio_readl(r.s, offset, GPIO_OUT_VAL_REG)
             IN  Ret(o.s, IF o.val \cap Bits(1) # {} THEN 1 ELSE 0)
        ELSE LET i == tegra_gpio_readl(r.s, offset, GPIO_INPUT_REG)
             IN  Ret(i.s, IF i.val \cap Bits(1) # {} THEN 1 ELSE 0)

set_gpio_direction_mode(s, offset, mode) ==
    LET r == tegra_gpio_readl(s, offset, GPIO_ENB_CONFIG_REG)
        val == IF mode THEN r.val \cup Bits(GPIO_INOUT_BIT)
               ELSE r.val \ Bits(GPIO_INOUT_BIT)
    IN  tegra_gpio_writel(r.s, val, offset, GPIO_ENB_CONFIG_REG)

\* pr: what pinctrl_gpio_direction_input returns.
tegra_gpio_direction_input(s, offset, pr) ==
    LET s1 == set_gpio_direction_mode(s, offset, FALSE)
        s2 == tegra_gpio_enable(s1, offset)
        s3 == Call(s2, "pinctrl_gpio_direction_input", offset, 0)
    IN  Ret(s3, 0)

\* pr: what pinctrl_gpio_direction_output returns.
tegra_gpio_direction_output(s, offset, value, pr) ==
    LET s0 == tegra_gpio_set(s, offset, value).s
        s1 == set_gpio_direction_mode(s0, offset, TRUE)
        s2 == tegra_gpio_enable(s1, offset)
        s3 == Call(s2, "pinctrl_gpio_direction_output", offset, 0)
    IN  Ret(s3, 0)

\* An unsigned 32-bit number is <<hi, lo>>, two 16-bit halves.
U32AddSmall(x, k) ==
    LET lo == x[2] + k
        hi == x[1] + (lo \div 65536)
    IN  <<hi % 65536, lo % 65536>>

U32DivSmall(x, d) ==
    (x[1] \div d) * 65536 + (((x[1] % d) * 65536 + x[2]) \div d)

\* ((n) + (d) - 1) / (d) in unsigned 32-bit arithmetic
DIV_ROUND_UP(n, d) == U32DivSmall(U32AddSmall(n, d - 1), d)

tegra_gpio_set_debounce(s, offset, debounce) ==
    LET dbc_ms == DIV_ROUND_UP(debounce, 1000)
        s1 == tegra_gpio_update(s, offset, GPIO_ENB_CONFIG_REG, Bits(1), Bits(1))
        s2 == tegra_gpio_update(s1, offset, GPIO_DEB_FUNC_BIT, Bits(5), Bits(1))
        s3 == tegra_gpio_writel(s2, Bits(dbc_ms), offset, GPIO_DBC_THRES_REG)
    IN  Ret(s3, 0)

\* ------------------------------------------------------ interrupt chip
tegra_gpio_irq_ack(s, gpio) ==
    Ret(tegra_gpio_writel(s, Bits(1), gpio, GPIO_INT_CLEAR_REG), 0)

tegra_gpio_irq_mask(s, gpio) ==
    Ret(tegra_gpio_update(s, gpio, GPIO_ENB_CONFIG_REG,
                          Bits(GPIO_INT_FUNC_BIT), Bits(0)), 0)

tegra_gpio_irq_unmask(s, gpio) ==
    Ret(tegra_gpio_update(s, gpio, GPIO_ENB_CONFIG_REG,
                          Bits(GPIO_INT_FUNC_BIT), Bits(GPIO_INT_FUNC_BIT)), 0)

Shl(v, n) == {i + n : i \in v} \cap BitPos

irq_set_handler_locked(s, gpio, h) == [s EXCEPT !.handler[gpio] = h]

tegra_pm_irq_set_wake_type(s, wake, type) ==
    [Call(s, "tegra_pm_irq_set_wake_type", wake, type)
        EXCEPT !.wake_type[wake] = type]

\* Faulty variant: the default case does not return.
TriggerSwitch_NoDefault(type) ==
    LET sense == Bits(type) \cap Bits(IRQ_TYPE_SENSE_MASK)
    IN  CASE sense = Bits(IRQ_TYPE_EDGE_RISING) ->
                <<TRUE, TRIGGER_LEVEL_HIGH, GPIO_INT_LVL_SINGLE_EDGE_TRIGGER>>
          [] sense = Bits(IRQ_TYPE_EDGE_FALLING) ->
                <<TRUE, TRIGGER_LEVEL_LOW, GPIO_INT_LVL_SINGLE_EDGE_TRIGGER>>
          [] sense = Bits(IRQ_TYPE_EDGE_BOTH) ->
                <<TRUE, 0, GPIO_INT_LVL_BOTH_EDGE_TRIGGER>>
          [] sense = Bits(IRQ_TYPE_LEVEL_HIGH) ->
                <<TRUE, TRIGGER_LEVEL_HIGH, GPIO_INT_LVL_LEVEL_TRIGGER>>
          [] sense = Bits(IRQ_TYPE_LEVEL_LOW) ->
                <<TRUE, TRIGGER_LEVEL_LOW, GPIO_INT_LVL_LEVEL_TRIGGER>>
          [] OTHER -> <<TRUE, 0, 0>>

\* The switch of tegra_gpio_irq_set_type: <<ok, trg_type, lvl_type>>.
TriggerSwitch(type) ==
    LET sense == Bits(type) \cap Bits(IRQ_TYPE_SENSE_MASK)
    IN  CASE sense = Bits(IRQ_TYPE_EDGE_RISING) ->
                <<TRUE, TRIGGER_LEVEL_HIGH, GPIO_INT_LVL_SINGLE_EDGE_TRIGGER>>
          [] sense = Bits(IRQ_TYPE_EDGE_FALLING) ->
                <<TRUE, TRIGGER_LEVEL_LOW, GPIO_INT_LVL_SINGLE_EDGE_TRIGGER>>
          [] sense = Bits(IRQ_TYPE_EDGE_BOTH) ->
                <<TRUE, 0, GPIO_INT_LVL_BOTH_EDGE_TRIGGER>>
          [] sense = Bits(IRQ_TYPE_LEVEL_HIGH) ->
                <<TRUE, TRIGGER_LEVEL_HIGH, GPIO_INT_LVL_LEVEL_TRIGGER>>
          [] sense = Bits(IRQ_TYPE_LEVEL_LOW) ->
                <<TRUE, TRIGGER_LEVEL_LOW, GPIO_INT_LVL_LEVEL_TRIGGER>>
          [] OTHER -> <<FALSE, 0, 0>>

\* Faulty variant: only IRQ_TYPE_LEVEL_HIGH is taken for a level type.
SelectHandler_HighOnly(s, gpio, type) ==
    IF Bits(type) \cap Bits(IRQ_TYPE_LEVEL_HIGH) # {}
    THEN irq_set_handler_locked(s, gpio, "handle_level_irq")
    ELSE IF Bits(type) \cap (Bits(IRQ_TYPE_EDGE_FALLING) \cup Bits(IRQ_TYPE_EDGE_RISING)) # {}
    THEN irq_set_handler_locked(s, gpio, "handle_edge_irq")
    ELSE s

\* The dispatch discipline tegra_gpio_irq_set_type selects for a type.
SelectHandler(s, gpio, type) ==
    IF Bits(type) \cap (Bits(IRQ_TYPE_LEVEL_LOW) \cup Bits(IRQ_TYPE_LEVEL_HIGH)) # {}
    THEN irq_set_handler_locked(s, gpio, "handle_level_irq")
    ELSE IF Bits(type) \cap (Bits(IRQ_TYPE_EDGE_FALLING) \cup Bits(IRQ_TYPE_EDGE_RISING)) # {}
    THEN irq_set_handler_locked(s, gpio, "handle_edge_irq")
    ELSE s

\* Faulty variant: the old trigger fields are not cleared.
ClearAndProgram_NoClear(val, trg_type, lvl_type) ==
    val \cup trg_type \cup lvl_type

\* val &= ~((0x3 << GPIO_TRG_TYPE_BIT_OFFSET) | GPIO_TRG_LVL_BIT);
\* val |= trg_type | lvl_type;
ClearAndProgram(val, trg_type, lvl_type) ==
    (val \ (Shl(Bits(3), GPIO_TRG_TYPE_BIT_OFFSET) \cup Bits(GPIO_TRG_LVL_BIT)))
        \cup trg_type \cup lvl_type

tegra_gpio_irq_set_type(s, gpio, type) ==
    LET wake == tegra186_gpio_to_wake(gpio)
        sw == TriggerSwitch(type)
    IN  IF ~sw[1] THEN Ret(s, -EINVAL)
        ELSE
        LET trg_type == Shl(Bits(sw[2]), 4)
            lvl_type == Shl(Bits(sw[3]), 2)
            r == tegra_gpio_readl(s, gpio, GPIO_ENB_CONFIG_REG)
            val == ClearAndProgram(r.val, trg_type, lvl_type)
            s1 == tegra_gpio_writel(r.s, val, gpio, GPIO_ENB_CONFIG_REG)
            s2 == tegra_gpio_enable(s1, gpio)
            s3 == SelectHandler(s2, gpio, type)
            s4 == IF wake >= 0 THEN tegra_pm_irq_set_wake_type(s3, wake, type)
                  ELSE s3
        IN  Ret(s4, 0)

\* ================================================================== state
VARIABLES
    mem,        \* register space: [Addrs -> SUBSET BitPos]
    io,         \* bus transactions and collaborator calls of the last call
    handler,    \* dispatch discipline of each pin's interrupt line
    wake_type,  \* wake-event registry: trigger type recorded per wake slot
    last,       \* the last driver call: [op, gpio, arg]
    ret,        \* what the last driver call returned
    nops,       \* number of driver calls made
    thr,        \* the calls in progress on two processors, bus access by bus access
    boot        \* tegra_gpio_probe: where it is, what it has created, its result

vars == <<mem, io, handler, wake_type, last, ret, nops, thr, boot>>

\* ------------------------------------------------------------ input sets
Values == {0, 1}
PinctrlResults == {0, -EINVAL}
Debounces == {<<0, 0>>, <<0, 1001>>, <<65535, 65535>>}
IrqTypes ==
    {IRQ_TYPE_NONE, IRQ_TYPE_EDGE_RISING, IRQ_TYPE_EDGE_FALLING,
     IRQ_TYPE_EDGE_BOTH, IRQ_TYPE_LEVEL_HIGH, IRQ_TYPE_LEVEL_LOW,
     IRQ_TYPE_LEVEL_HIGH + IRQ_TYPE_EDGE_RISING,
     IRQ_TYPE_LEVEL_HIGH + IRQ_TYPE_LEVEL_LOW}

\* Contents of a security-configuration register: full access, everything
\* set, and full access with each one of the four capability bits clear.
ScrValues ==
    {GPIO_FULL_ACCESS, BitPos}
        \cup {GPIO_FULL_ACCESS \ Bits(b) :
                b \in {GPIO_SCR_SEC_WEN, GPIO_SCR_SEC_REN,
                       GPIO_SCR_SEC_G1R, GPIO_SCR_SEC_G1W}}

\* Contents the per-pin registers hold when the driver takes over.
RegInit == {{}, BitPos}

\* What the hardware holds when the driver is probed:
\* <<security register of A6, security registers of A7 and DD0, content of
\* the per-pin registers>>.
Scenarios ==
    {<<scr, GPIO_FULL_ACCESS, r0>> : scr \in {GPIO_FULL_ACCESS, BitPos}, r0 \in RegInit}
        \cup {<<scr, {}, {}>> : scr \in ScrValues \ {GPIO_FULL_ACCESS, BitPos}}

Cur == [mem |-> mem, io |-> <<>>, handler |-> handler, wake_type |-> wake_type]

\* The state after tegra_gpio_probe: every line has the simple handler and
\* the interrupt of every accessible pin is masked.
ProbeMask(m) ==
    [a \in Addrs |->
        IF \E g \in Pins :
              /\ a = RegAddr(g, GPIO_ENB_CONFIG_REG)
              /\ is_gpio_accessible([mem |-> m, io |-> <<>>], g).val
        THEN m[a] \ Bits(GPIO_INT_FUNC_BIT)
        ELSE m[a]]

Init ==
    /\ \E sc \in Scenarios :
          mem = ProbeMask(
                  [a \in Addrs |->
                     IF a = ScrAddr(TEGRA_GPIO(0, 6)) THEN sc[1]
                     ELSE IF \E g \in Pins : a = ScrAddr(g) THEN sc[2]
                     ELSE IF \E g \in Pins, r \in PinRegs : a = RegAddr(g, r) THEN sc[3]
                     ELSE {}])
    /\ io = <<>>
    /\ handler = [g \in Pins |-> "handle_simple_irq"]
    /\ wake_type = [w \in WakeSlots |-> IRQ_TYPE_NONE]
    /\ last = [op |-> "probe", gpio |-> 0, arg |-> <<>>]
    /\ ret = 0
    /\ nops = 0
    /\ thr = <<>>
    /\ boot = [pc |-> "done", ret |-> 0]

\* A call that returned r becomes the new state.
Commit(r, op, gpio, arg) ==
    /\ nops < MaxOps
    /\ mem' = r.s.mem
    /\ io' = r.s.io
    /\ handler' = r.s.handler
    /\ wake_type' = r.s.wake_type
    /\ last' = [op |-> op, gpio |-> gpio, arg |-> arg]
    /\ ret' = r.ret
    /\ nops' = nops + 1
    /\ UNCHANGED <<thr, boot>>

\* --------------------------------------------------------------- actions
IsEnabled ==
    \E g \in Pins : Commit(tegra_gpio_is_enabled(Cur, g), "is_enabled", g, <<>>)

Request ==
    \E g \in Pins, pr \in PinctrlResults :
        Commit(tegra_gpio_request(Cur, g, pr), "request", g, <<pr>>)

Free ==
    \E g \in Pins : Commit(tegra_gpio_free(Cur, g), "free", g, <<>>)

Set ==
    \E g \in Pins, v \in Values :
        Commit(tegra_gpio_set(Cur, g, v), "set", g, <<v>>)

\* The input-status register is driven by the pad: the hardware presents
\* level lvl in it when the call reads.
Get ==
    \E g \in Pins, lvl \in Values :
        LET s0 == [Cur EXCEPT !.mem[RegAddr(g, GPIO_INPUT_REG)] = Bits(lvl)]
        IN  Commit(tegra_gpio_get(s0, g), "get", g, <<lvl>>)

DirectionInput ==
    \E g \in Pins, pr \in PinctrlResults :
        Commit(tegra_gpio_direction_input(Cur, g, pr), "direction_input", g, <<pr>>)

DirectionOutput ==
    \E g \in Pins, v \in Values, pr \in PinctrlResults :
        Commit(tegra_gpio_direction_output(Cur, g, v, pr),
               "direction_output", g, <<v, pr>>)

SetDebounce ==
    \E g \in Pins, d \in Debounces :
        Commit(tegra_gpio_set_debounce(Cur, g, d), "set_debounce", g, d)

IrqAck ==
    \E g \in Pins : Commit(tegra_gpio_irq_ack(Cur, g), "irq_ack", g, <<>>)

IrqMask ==
    \E g \in Pins : Commit(tegra_gpio_irq_mask(Cur, g), "irq_mask", g, <<>>)

IrqUnmask ==
    \E g \in Pins : Commit(tegra_gpio_irq_unmask(Cur, g), "irq_unmask", g, <<>>)

IrqSetType ==
    \E g \in Pins, t \in IrqTypes :
        Commit(tegra_gpio_irq_set_type(Cur, g, t), "irq_set_type", g, <<t>>)

Next ==
    \/ IsEnabled
    \/ Request
    \/ Free
    \/ Set
    \/ Get
    \/ DirectionInput
    \/ DirectionOutput
    \/ SetDebounce
    \/ IrqAck
    \/ IrqMask
    \/ IrqUnmask
    \/ IrqSetType

Spec == Init /\ [][Next]_vars

\* =============================================================== properties
Cnf(g) == mem[RegAddr(g, GPIO_ENB_CONFIG_REG)]

Accessible(g) == is_gpio_accessible(Cur, g).val

\* The pin is an unwired slot of its port, or its port is absent.
OffTopology(g) ==
    \/ GPIO_PIN(g) >= tegra_gpio_cinfo[GPIO_PORT(g)].valid_pins
    \/ tegra_gpio_cinfo[GPIO_PORT(g)].cont_id = -1

\* The register writes and collaborator calls of a trace, in order.
Effects(tr) == SelectSeq(tr, LAMBDA e : e.k # "R")

RegWrites(tr) == SelectSeq(tr, LAMBDA e : e.k = "W")

\* --------------------------------------------------------------------- C1
\* C1: for a pin whose pin-in-port index is >= the wired-pin count of its
\* port, or whose port has the absent-controller sentinel, is_gpio_accessible
\* returns false without any register read, whatever the security registers
\* hold; tegra_gpio_request on it fails with -EBUSY having touched nothing.
C1_OffTopologyInaccessible ==
    /\ \A g \in Pins :
          OffTopology(g) =>
              LET r == is_gpio_accessible(Cur, g)
              IN  r.val = FALSE /\ r.s.io = <<>>
    /\ (last.op \in {"request", "is_enabled"} /\ OffTopology(last.gpio)) => io = <<>>
    /\ (last.op = "request" /\ OffTopology(last.gpio)) => ret = -EBUSY

\* tegra_gpio_request was refused on the unwired slot A7 although its
\* security register grants full access.
C1_Witness ==
    /\ last.op = "request"
    /\ last.gpio = TEGRA_GPIO(0, 7)
    /\ mem[ScrAddr(last.gpio)] = GPIO_FULL_ACCESS
    /\ ret = -EBUSY

\* --------------------------------------------------------------------- C2
\* C2: for a wired pin of a present port, is_gpio_accessible is true iff
\* bits 28, 27, 1 and 9 are all set in the register at
\* scr_offset + pin * 0x08 + 0x04 of the port's window, and that register is
\* the one register it reads; tegra_gpio_request is refused exactly when one
\* of the four bits is clear.
C2_FullAccessIff ==
    /\ \A g \in Pins :
          ~OffTopology(g) =>
              LET port == tegra_gpio_cinfo[GPIO_PORT(g)]
                  a == <<port.reg_index, port.scr_offset + GPIO_PIN(g) * 8 + 4>>
                  r == is_gpio_accessible(Cur, g)
              IN  /\ r.val = ({28, 27, 1, 9} \subseteq mem[a])
                  /\ r.s.io = <<Ev("R", a, {})>>
    /\ (last.op = "request" /\ ~OffTopology(last.gpio)) =>
          ((ret = -EBUSY) <=> ~({28, 27, 1, 9} \subseteq mem[ScrAddr(last.gpio)]))

\* tegra_gpio_request was refused on the wired pin A6 whose security
\* register has three of the four capability bits.
C2_Witness ==
    /\ last.op = "request"
    /\ ~OffTopology(last.gpio)
    /\ Cardinality(mem[ScrAddr(last.gpio)] \cap {28, 27, 1, 9}) = 3
    /\ ret = -EBUSY

\* --------------------------------------------------------------------- C3
MutatingOps ==
    {"request", "free", "set", "direction_input", "direction_output",
     "set_debounce"}

\* C3: on a pin on which is_gpio_accessible is false, request, free, set,
\* direction_input, direction_output and set_debounce write no register,
\* and those that return a result return the busy error.
C3_InaccessibleUntouched ==
    (last.op \in MutatingOps /\ ~Accessible(last.gpio)) =>
        /\ RegWrites(io) = <<>>
        /\ (last.op \in {"request", "direction_input", "direction_output",
                          "set_debounce"} => ret = -EBUSY)

\* --------------------------------------------------------------------- C4
LowBit(v) == IF 0 \in v THEN 1 ELSE 0

\* The register space with level lvl on the pad of pin g.
WithPad(g, lvl) == [Cur EXCEPT !.mem[RegAddr(g, GPIO_INPUT_REG)] = Bits(lvl)]

\* C4: after tegra_gpio_set(pin, v) on an accessible pin whose direction bit
\* is output, tegra_gpio_get(pin) returns v whatever the input-status
\* register holds; tegra_gpio_get returns the low bit of the output-value
\* register when the direction bit is set, of the input-status register
\* otherwise.
C4_ReadBack ==
    /\ (last.op = "set" /\ Accessible(last.gpio) /\ 1 \in Cnf(last.gpio)) =>
          \A lvl \in Values :
              tegra_gpio_get(WithPad(last.gpio, lvl), last.gpio).ret = last.arg[1]
    /\ last.op = "get" =>
          ret = IF 1 \in Cnf(last.gpio)
                THEN LowBit(mem[RegAddr(last.gpio, GPIO_OUT_VAL_REG)])
                ELSE LowBit(mem[RegAddr(last.gpio, GPIO_INPUT_REG)])

\* 1 was written to an accessible output pin, and a read with the pad at
\* level 0 gives 1.
C4_Witness ==
    /\ last.op = "set"
    /\ last.arg = <<1>>
    /\ Accessible(last.gpio)
    /\ 1 \in Cnf(last.gpio)
    /\ tegra_gpio_get(WithPad(last.gpio, 0), last.gpio).ret = 1

\* --------------------------------------------------------------------- C5
\* C5: tegra_gpio_set writes the output-value register, then clears the
\* output-control register; tegra_gpio_direction_output does those two
\* writes, then writes the direction bit as output, then writes the enable
\* bit, then calls pinctrl_gpio_direction_output.
C5_WriteOrder ==
    /\ last.op = "set" =>
          Effects(io) =
              << Ev("W", RegAddr(last.gpio, GPIO_OUT_VAL_REG), Bits(last.arg[1])),
                 Ev("W", RegAddr(last.gpio, GPIO_OUT_CTRL_REG), {}) >>
    /\ last.op = "direction_output" =>
          LET e == Effects(io)
              cnf == RegAddr(last.gpio, GPIO_ENB_CONFIG_REG)
          IN  /\ Len(e) = 5
              /\ e[1] = Ev("W", RegAddr(last.gpio, GPIO_OUT_VAL_REG), Bits(last.arg[1]))
              /\ e[2] = Ev("W", RegAddr(last.gpio, GPIO_OUT_CTRL_REG), {})
              /\ e[3].k = "W" /\ e[3].a = cnf /\ 1 \in e[3].v
              /\ e[4].k = "W" /\ e[4].a = cnf /\ {0, 1} \subseteq e[4].v
              /\ e[5] = Ev("pinctrl_gpio_direction_output", <<last.gpio, 0>>, {})

\* tegra_gpio_direction_output ran with value 1 on a pin that was neither
\* enabled nor an output: the enable bit appears only in the second
\* configuration write.
C5_Witness ==
    /\ last.op = "direction_output"
    /\ last.arg[1] = 1
    /\ Len(Effects(io)) = 5
    /\ 0 \notin Effects(io)[3].v
    /\ 0 \in Effects(io)[4].v

\* --------------------------------------------------------------------- C6
\* C6: when the pin-multiplexing collaborator fails in
\* tegra_gpio_direction_input or tegra_gpio_direction_output, the call
\* returns that failure, and the direction and enable bits stay as written.
C6_CollaboratorFailureReturned ==
    /\ (last.op = "direction_input" /\ last.arg[1] < 0) =>
          /\ ret = last.arg[1]
          /\ 1 \notin Cnf(last.gpio) /\ 0 \in Cnf(last.gpio)
    /\ (last.op = "direction_output" /\ last.arg[2] < 0) =>
          /\ ret = last.arg[2]
          /\ 1 \in Cnf(last.gpio) /\ 0 \in Cnf(last.gpio)

\* --------------------------------------------------------------------- C7
\* The 2-bit trigger-kind field (bits 3:2) and the polarity bit (bit 4).
TriggerKind(v) == (IF 2 \in v THEN 1 ELSE 0) + (IF 3 \in v THEN 2 ELSE 0)

Polarity(v) == IF 4 \in v THEN 1 ELSE 0

SupportedTypes ==
    {IRQ_TYPE_EDGE_RISING, IRQ_TYPE_EDGE_FALLING, IRQ_TYPE_EDGE_BOTH,
     IRQ_TYPE_LEVEL_HIGH, IRQ_TYPE_LEVEL_LOW}

\* The documented table: <<trigger kind, polarity>> of a supported type
\* (level = 1, single edge = 2, both edges = 3; high = 1, low = 0).
TriggerTable(type) ==
    CASE type = IRQ_TYPE_EDGE_RISING -> <<2, 1>>
      [] type = IRQ_TYPE_EDGE_FALLING -> <<2, 0>>
      [] type = IRQ_TYPE_EDGE_BOTH -> <<3, 0>>
      [] type = IRQ_TYPE_LEVEL_HIGH -> <<1, 1>>
      [] type = IRQ_TYPE_LEVEL_LOW -> <<1, 0>>

\* C7: tegra_gpio_irq_set_type with one of the five supported types
\* succeeds and leaves the trigger-kind field and the polarity bit of the
\* pin's configuration register as the table gives them, whatever the
\* register held before.
C7_TriggerRoundTrip ==
    (last.op = "irq_set_type" /\ last.arg[1] \in SupportedTypes) =>
        /\ ret = 0
        /\ <<TriggerKind(Cnf(last.gpio)), Polarity(Cnf(last.gpio))>>
               = TriggerTable(last.arg[1])

\* Edge-falling was set on a pin whose registers held all ones before (the
\* untouched debounce register still does): kind 3 became 2, polarity 1
\* became 0.
C7_Witness ==
    /\ last.op = "irq_set_type"
    /\ last.arg = <<IRQ_TYPE_EDGE_FALLING>>
    /\ ret = 0
    /\ nops = 1
    /\ mem[RegAddr(last.gpio, GPIO_DBC_THRES_REG)] = BitPos
    /\ TriggerKind(Cnf(last.gpio)) = 2

\* --------------------------------------------------------------------- C8
\* C8: tegra_gpio_irq_set_type with a type outside the five supported ones
\* returns -EINVAL and changes no register, no dispatch discipline and
\* nothing in the wake-event registry.
C8_UnsupportedRejected ==
    [][(last'.op = "irq_set_type" /\ last'.arg[1] \notin SupportedTypes) =>
          /\ ret' = -EINVAL
          /\ mem' = mem
          /\ handler' = handler
          /\ wake_type' = wake_type
          /\ io' = <<>>]_vars

\* A level bit combined with an edge bit was rejected on the wake pin A6.
C8_Witness ==
    /\ last.op = "irq_set_type"
    /\ last.arg = <<IRQ_TYPE_LEVEL_HIGH + IRQ_TYPE_EDGE_RISING>>
    /\ last.gpio = TEGRA_GPIO(0, 6)
    /\ ret = -EINVAL

OtherBits(v) == v \ {6}

\* C10: tegra_gpio_irq_mask and tegra_gpio_irq_unmask change nothing but
\* bit 6 of the pin's configuration register, which mask clears and unmask
\* sets; masking twice gives the state masking once gives; after mask then
\* unmask the trigger kind, polarity, direction and enable bits are what
\* they were.
C10_MaskFrame ==
    /\ [][/\ last'.op = "irq_mask" =>
                /\ mem' = [mem EXCEPT ![RegAddr(last'.gpio, GPIO_ENB_CONFIG_REG)] = @ \ {6}]
                /\ handler' = handler /\ wake_type' = wake_type
          /\ last'.op = "irq_unmask" =>
                /\ mem' = [mem EXCEPT ![RegAddr(last'.gpio, GPIO_ENB_CONFIG_REG)] = @ \cup {6}]
                /\ handler' = handler /\ wake_type' = wake_type]_vars
    /\ [](\A g \in Pins :
            LET m1 == tegra_gpio_irq_mask(Cur, g).s
                m2 == tegra_gpio_irq_mask(m1, g).s
                u == tegra_gpio_irq_unmask(m1, g).s
            IN  /\ m2.mem = m1.mem
                /\ 6 \notin m1.mem[RegAddr(g, GPIO_ENB_CONFIG_REG)]
                /\ 6 \in u.mem[RegAddr(g, GPIO_ENB_CONFIG_REG)]
                /\ OtherBits(u.mem[RegAddr(g, GPIO_ENB_CONFIG_REG)]) = OtherBits(Cnf(g)))

\* An interrupt was unmasked on a pin whose configuration register has a
\* trigger type, the direction bit and the enable bit set.
C10_Witness ==
    /\ last.op = "irq_unmask"
    /\ nops = 2
    /\ 6 \in Cnf(last.gpio)
    /\ {0, 1, 3} \subseteq Cnf(last.gpio)

\* ================================================================ set_wake
tegra_pm_irq_set_wake(s, wake, enable) ==
    Call(s, "tegra_pm_irq_set_wake", wake, enable)

\* Faulty variant: the registry is called whatever the lookup gave.
tegra_gpio_irq_set_wake_NoCheck(s, gpio, enable, rr) ==
    LET wake == tegra186_gpio_to_wake(gpio)
    IN  Ret(tegra_pm_irq_set_wake(s, wake, enable), rr)

\* rr: what tegra_pm_irq_set_wake returns when it is called.
tegra_gpio_irq_set_wake(s, gpio, enable, rr) ==
    LET wake == tegra186_gpio_to_wake(gpio)
    IN  IF wake < 0 THEN Ret(s, wake)
        ELSE Ret(tegra_pm_irq_set_wake(s, wake, enable), rr)

\* A6 (wake0), A5 (wake2), C6 (wake31), FF3 (wake69); A7 and DD0 have no slot.
WakePins ==
    {TEGRA_GPIO(0, 6), TEGRA_GPIO(0, 5), TEGRA_GPIO(2, 6), TEGRA_GPIO(31, 3),
     TEGRA_GPIO(0, 7), TEGRA_GPIO(29, 0)}

WakeResults == {0, -EBUSY}

IrqSetWake ==
    \E g \in WakePins, en \in Values, rr \in WakeResults :
        Commit(tegra_gpio_irq_set_wake(Cur, g, en, rr), "irq_set_wake", g, <<en, rr>>)

NextWake == IrqSetWake

SpecWake == Init /\ [][NextWake]_vars

InWakeTable(g) == \E i \in 1..Len(tegra186_gpio_wakes) : tegra186_gpio_wakes[i] = g

\* -------------------------------------------------------------------- C11
\* C11: tegra_gpio_irq_set_wake on a pin that has no slot in the wake table
\* returns an error (-EINVAL, the value the lookup gives) and calls nothing
\* of the wake-event registry.
C11_NoSlotRejected ==
    (last.op = "irq_set_wake" /\ ~InWakeTable(last.gpio)) =>
        /\ ret = -EINVAL
        /\ io = <<>>

\* Wake enable was asked for the unwired slot A7, which has no wake slot.
C11_Witness ==
    /\ last.op = "irq_set_wake"
    /\ last.gpio = TEGRA_GPIO(0, 7)
    /\ last.arg[1] = 1
    /\ ret = -EINVAL

\* -------------------------------------------------------------------- C12
\* C12: tegra_gpio_irq_set_wake on a pin of the wake table calls
\* tegra_pm_irq_set_wake once, with the slot whose table entry is the pin
\* and with the enable flag given, and returns what the registry returned.
C12_SlotPropagated ==
    (last.op = "irq_set_wake" /\ InWakeTable(last.gpio)) =>
        /\ Len(io) = 1
        /\ io[1].k = "tegra_pm_irq_set_wake"
        /\ io[1].a[1] \in WakeSlots
        /\ tegra186_gpio_wakes[io[1].a[1] + 1] = last.gpio
        /\ io[1].a[2] = last.arg[1]
        /\ ret = last.arg[2]

\* Wake disable on FF3 reached the registry as slot 69 and the registry's
\* error came back.
C12_Witness ==
    /\ last.op = "irq_set_wake"
    /\ last.gpio = TEGRA_GPIO(31, 3)
    /\ last.arg = <<0, -EBUSY>>
    /\ io = <<Ev("tegra_pm_irq_set_wake", <<69, 0>>, {})>>
    /\ ret = -EBUSY

\* ================================================================ debounce
\* ceil(x / 1000) of an unsigned 32-bit number, without wrap-around.
CeilMs(x) ==
    U32DivSmall(x, 1000)
        + (IF ((x[1] % 1000) * 65536 + x[2]) % 1000 = 0 THEN 0 ELSE 1)

\* -------------------------------------------------------------------- C13
\* C13: for every unsigned 32-bit debounce value d, the threshold that
\* tegra_gpio_set_debounce writes is ceil(d / 1000), up to the largest d.
C13_RoundsUp ==
    last.op = "set_debounce" =>
        mem[RegAddr(last.gpio, GPIO_DBC_THRES_REG)] = Bits(CeilMs(last.arg))

\* -------------------------------------------------------------------- C14
\* C14: after tegra_gpio_set_debounce on an accessible pin, the pin's
\* configuration register has bit 0 (enable) and bit 5 (debounce function)
\* set and its threshold register holds the rounded debounce value.
C14_DebounceProgrammed ==
    (last.op = "set_debounce" /\ Accessible(last.gpio)) =>
        /\ Bits(GPIO_ENB_BIT) \subseteq Cnf(last.gpio)
        /\ Bits(GPIO_DEB_FUNC_BIT) \subseteq Cnf(last.gpio)
        /\ mem[RegAddr(last.gpio, GPIO_DBC_THRES_REG)]
              = Bits(DIV_ROUND_UP(last.arg, 1000))

\* -------------------------------------------------------------------- C17
OwnRegs(g) == {RegAddr(g, r) : r \in PinRegs}

PinOps ==
    {"free", "set", "direction_input", "direction_output", "set_debounce",
     "irq_set_type", "irq_mask", "irq_unmask", "irq_ack"}

\* C17: a line-control or interrupt operation on pin p writes none but the
\* six registers of p.
C17_OwnRegistersOnly ==
    last.op \in PinOps =>
        \A i \in 1..Len(io) : io[i].k = "W" => io[i].a \in OwnRegs(last.gpio)

\* ============================================================ demultiplexer
Ports == 0..(MAX_PORTS - 1)
MAX_GPIO_CONTROLLERS == 7
Controllers == 0..(MAX_GPIO_CONTROLLERS - 1)

\* port_map[] after the two loops of lines 617-623: the last port of the
\* table with the controller's id wins its slot, -1 where there is none.
port_map(controller) ==
    [k \in 0..(MAX_GPIO_PORTS - 1) |->
        LET hits == {i \in Ports : /\ tegra_gpio_cinfo[i].cont_id = controller
                                   /\ tegra_gpio_cinfo[i].cont_index = k}
        IN  IF hits = {} THEN -1
            ELSE CHOOSE i \in hits : \A j \in hits : j <= i]

\* The bits of a set in ascending order (find_first_bit, find_next_bit).
BitSeq(S) ==
    [i \in 1..Cardinality(S) |->
        CHOOSE b \in S : Cardinality({x \in S : x < b}) = i - 1]

\* Faulty variant: the scan runs over the whole word, not over size bits.
for_each_set_bit_NoSize(s, gpio, val, size) ==
    LET found == BitSeq(val)
    IN  [s EXCEPT !.io = @ \o [i \in 1..Len(found) |->
                                 Ev("generic_handle_irq", <<gpio + found[i], 0>>, {})]]

\* for_each_set_bit(pin, &val, size) generic_handle_irq(gpio_to_irq(gpio + pin))
for_each_set_bit(s, gpio, val, size) ==
    LET found == BitSeq(val \cap (0..(size - 1)))
    IN  [s EXCEPT !.io = @ \o [i \in 1..Len(found) |->
                                 Ev("generic_handle_irq", <<gpio + found[i], 0>>, {})]]

RECURSIVE ScanPorts(_, _, _)
\* The loop of lines 626-638 from slot i on.
ScanPorts(s, pm, i) ==
    IF i >= MAX_GPIO_PORTS THEN s
    ELSE IF pm[i] = -1 THEN ScanPorts(s, pm, i + 1)
    ELSE LET r == raw_readl(s, StatusAddr(pm[i]))
         IN  ScanPorts(for_each_set_bit(r.s, pm[i] * 8, r.val, 8), pm, i + 1)

\* Faulty variant: the exit marker is left out when nothing was dispatched.
tegra_gpio_irq_handler_desc_ExitIfDispatched(s, controller) ==
    LET s1 == Call(s, "chained_irq_enter", controller, 0)
        s2 == ScanPorts(s1, port_map(controller), 0)
    IN  IF \E i \in 1..Len(s2.io) : s2.io[i].k = "generic_handle_irq"
        THEN Ret(Call(s2, "chained_irq_exit", controller, 0), 0)
        ELSE Ret(s2, 0)

tegra_gpio_irq_handler_desc(s, controller) ==
    LET s1 == Call(s, "chained_irq_enter", controller, 0)
        s2 == ScanPorts(s1, port_map(controller), 0)
    IN  Ret(Call(s2, "chained_irq_exit", controller, 0), 0)

\* The pending-status registers of the ports of the topology.
StatusAddrs == {StatusAddr(p) : p \in {q \in Ports : tegra_gpio_cinfo[q].cont_id >= 0}}

\* C (controller 3, slot 1), I (controller 0, slot 4), FF (AON, slot 0).
HotPorts == {2, 8, 31}

\* Nothing pending; 0b10010001; the same with bits above the low eight;
\* everything.
StatusValues == {{}, Bits(145), Bits(145) \cup {8, 31}, BitPos}

\* What the other ports hold.
Background == {{}, {1, 8}}

InitDemux ==
    /\ \E p \in HotPorts, v \in StatusValues, bg \in Background :
          mem = [a \in StatusAddrs |-> IF a = StatusAddr(p) THEN v ELSE bg]
    /\ io = <<>>
    /\ handler = [g \in Pins |-> "handle_simple_irq"]
    /\ wake_type = [w \in WakeSlots |-> IRQ_TYPE_NONE]
    /\ last = [op |-> "probe", gpio |-> 0, arg |-> <<>>]
    /\ ret = 0
    /\ nops = 0
    /\ thr = <<>>
    /\ boot = [pc |-> "done", ret |-> 0]

IrqHandler ==
    \E c \in Controllers :
        Commit(tegra_gpio_irq_handler_desc(Cur, c), "irq_handler", -1, <<c>>)

NextDemux == IrqHandler

SpecDemux == InitDemux /\ [][NextDemux]_vars

\* The pins handed to generic_handle_irq, in the order of the calls.
Dispatched ==
    LET d == SelectSeq(io, LAMBDA e : e.k = "generic_handle_irq")
    IN  [i \in 1..Len(d) |-> d[i].a[1]]

\* The ports of a controller, and the pins pending on them.
PortsOf(c) == {p \in Ports : tegra_gpio_cinfo[p].cont_id = c}

Pending(c) ==
    UNION {{p * 8 + b : b \in mem[StatusAddr(p)] \cap (0..7)} : p \in PortsOf(c)}

\* Position of a pin in the scan: slot of its port, then bit.
ScanKey(g) == tegra_gpio_cinfo[GPIO_PORT(g)].cont_index * 8 + GPIO_PIN(g)

\* -------------------------------------------------------------------- C15
\* C15: one run of tegra_gpio_irq_handler_desc for controller c hands to
\* generic_handle_irq exactly the pins port * 8 + bit whose bit is set in
\* the low eight bits of the status register of a port of c, each once, by
\* ascending slot of the port and then ascending bit.
C15_DispatchSequence ==
    last.op = "irq_handler" =>
        /\ {Dispatched[i] : i \in 1..Len(Dispatched)} = Pending(last.arg[1])
        /\ \A i, j \in 1..Len(Dispatched) :
              i < j => ScanKey(Dispatched[i]) < ScanKey(Dispatched[j])

\* Status 0b10010001 on port C alone: pins 16, 20, 23 in that order.
C15_Witness ==
    /\ last.op = "irq_handler"
    /\ last.arg = <<3>>
    /\ mem[StatusAddr(2)] = Bits(145)
    /\ Dispatched = <<16, 20, 23>>

\* -------------------------------------------------------------------- C16
\* C16: in every run of tegra_gpio_irq_handler_desc, chained_irq_enter is
\* called once, before every status read and every dispatch, and
\* chained_irq_exit once, after all of them.
C16_EnterExitBracket ==
    last.op = "irq_handler" =>
        /\ Len(io) >= 2
        /\ io[1].k = "chained_irq_enter"
        /\ io[Len(io)].k = "chained_irq_exit"
        /\ \A i \in 2..(Len(io) - 1) : io[i].k \in {"R", "generic_handle_irq"}

\* A run in which the status registers were read and nothing was pending.
C16_Witness ==
    /\ last.op = "irq_handler"
    /\ Dispatched = <<>>
    /\ Len(io) > 2
    /\ io[Len(io)].k = "chained_irq_exit"

\* ============================================================== concurrency
\* No lock is taken anywhere in the driver: two calls on two processors
\* interleave bus access by bus access.  A call is the sequence of its
\* register accesses; an access is a plain write (rd = FALSE) of the bits
\* set, or a read followed by a write of (value read /\ keep) \/ set.
Access(a, rd, keep, set) == [a |-> a, rd |-> rd, keep |-> keep, set |-> set]

\* tegra_gpio_update as its two bus accesses
UpdateAccess(gpio, reg_offset, mask, val) ==
    Access(RegAddr(gpio, reg_offset), TRUE, BitPos \ mask, val \cap mask)

\* tegra_gpio_writel as its bus access
WriteAccess(val, gpio, reg_offset) ==
    Access(RegAddr(gpio, reg_offset), FALSE, {}, val)

\* Faulty variant: tegra_gpio_irq_set_type programs the trigger kind and the
\* polarity in two read-modify-writes.
Program_SplitFields(c) ==
    LET sw == TriggerSwitch(c.arg)
    IN  IF c.op # "irq_set_type" \/ ~sw[1] THEN <<>>
        ELSE << UpdateAccess(c.gpio, GPIO_ENB_CONFIG_REG,
                             Shl(Bits(3), GPIO_TRG_TYPE_BIT_OFFSET), Shl(Bits(sw[3]), 2)),
                UpdateAccess(c.gpio, GPIO_ENB_CONFIG_REG,
                             Bits(GPIO_TRG_LVL_BIT), Shl(Bits(sw[2]), 4)),
                UpdateAccess(c.gpio, GPIO_ENB_CONFIG_REG, Bits(1), Bits(1)) >>

\* The register accesses of a call, in program order.
Program(c) ==
    CASE c.op = "set_debounce" ->
           << UpdateAccess(c.gpio, GPIO_ENB_CONFIG_REG, Bits(1), Bits(1)),
              UpdateAccess(c.gpio, GPIO_DEB_FUNC_BIT, Bits(5), Bits(1)),
              WriteAccess(Bits(DIV_ROUND_UP(c.arg, 1000)), c.gpio, GPIO_DBC_THRES_REG) >>
      [] c.op = "irq_mask" ->
           << UpdateAccess(c.gpio, GPIO_ENB_CONFIG_REG, Bits(GPIO_INT_FUNC_BIT), Bits(0)) >>
      [] c.op = "irq_unmask" ->
           << UpdateAccess(c.gpio, GPIO_ENB_CONFIG_REG,
                           Bits(GPIO_INT_FUNC_BIT), Bits(GPIO_INT_FUNC_BIT)) >>
      [] c.op = "irq_set_type" ->
           LET sw == TriggerSwitch(c.arg)
           IN  IF ~sw[1] THEN <<>>
               ELSE << Access(RegAddr(c.gpio, GPIO_ENB_CONFIG_REG), TRUE,
                              ClearAndProgram(BitPos, {}, {}),
                              Shl(Bits(sw[2]), 4) \cup Shl(Bits(sw[3]), 2)),
                       UpdateAccess(c.gpio, GPIO_ENB_CONFIG_REG, Bits(1), Bits(1)) >>

\* The same call made alone, as one step.
RunCall(s, c) ==
    CASE c.op = "set_debounce" -> tegra_gpio_set_debounce(s, c.gpio, c.arg)
      [] c.op = "irq_mask" -> tegra_gpio_irq_mask(s, c.gpio)
      [] c.op = "irq_unmask" -> tegra_gpio_irq_unmask(s, c.gpio)
      [] c.op = "irq_set_type" -> tegra_gpio_irq_set_type(s, c.gpio, c.arg)

\* Calls on A5 and calls on A6.
CallsP ==
    {[op |-> "set_debounce", gpio |-> TEGRA_GPIO(0, 5), arg |-> <<0, 1001>>],
     [op |-> "irq_unmask", gpio |-> TEGRA_GPIO(0, 5), arg |-> <<>>]}

CallsQ ==
    {[op |-> "irq_mask", gpio |-> TEGRA_GPIO(0, 6), arg |-> <<>>],
     [op |-> "irq_unmask", gpio |-> TEGRA_GPIO(0, 6), arg |-> <<>>],
     [op |-> "irq_set_type", gpio |-> TEGRA_GPIO(0, 6), arg |-> IRQ_TYPE_EDGE_RISING],
     [op |-> "set_debounce", gpio |-> TEGRA_GPIO(0, 6), arg |-> <<0, 0>>]}

\* The registers the calls of CallsP and CallsQ can address.
RaceAddrs ==
    {RegAddr(g, r) : g \in {TEGRA_GPIO(0, 5), TEGRA_GPIO(0, 6), TEGRA_GPIO(0, 7)},
                     r \in PinRegs}

\* thr.mem0 the registers before the calls, thr.run the two calls in
\* progress, thr.order the processors in the order of their bus accesses.
Thread(c) == [call |-> c, pc |-> 1, reading |-> FALSE, rval |-> {}]

InitRace ==
    /\ \E r0 \in RegInit : mem = [a \in RaceAddrs |-> r0]
    /\ \E c1 \in CallsP, c2 \in CallsQ :
          thr = [mem0 |-> mem, run |-> <<Thread(c1), Thread(c2)>>, order |-> <<>>]
    /\ io = <<>>
    /\ handler = [g \in Pins |-> "handle_simple_irq"]
    /\ wake_type = [w \in WakeSlots |-> IRQ_TYPE_NONE]
    /\ last = [op |-> "probe", gpio |-> 0, arg |-> <<>>]
    /\ ret = 0
    /\ nops = 0
    /\ boot = [pc |-> "done", ret |-> 0]

Running(t) == thr.run[t].pc <= Len(Program(thr.run[t].call))

\* __raw_readl of a read-modify-write on processor t
RaceRead(t) ==
    /\ Running(t)
    /\ LET th == thr.run[t]
           ac == Program(th.call)[th.pc]
       IN  /\ ac.rd
           /\ ~th.reading
           /\ thr' = [thr EXCEPT !.run[t].reading = TRUE, !.run[t].rval = mem[ac.a],
                                 !.order = Append(@, t)]
    /\ UNCHANGED <<mem, io, handler, wake_type, last, ret, nops, boot>>

\* __raw_writel on processor t; the call returns after its last write.
RaceWrite(t) ==
    /\ Running(t)
    /\ LET th == thr.run[t]
           ac == Program(th.call)[th.pc]
           done == RunCall(Cur, th.call)
       IN  /\ ac.rd => th.reading
           /\ mem' = [mem EXCEPT ![ac.a] = (th.rval \cap ac.keep) \cup ac.set]
           /\ thr' = [thr EXCEPT !.run[t].reading = FALSE, !.run[t].rval = {},
                                 !.run[t].pc = @ + 1, !.order = Append(@, t)]
           /\ IF th.pc = Len(Program(th.call))
              THEN /\ handler' = done.s.handler
                   /\ wake_type' = done.s.wake_type
                   /\ last' = [op |-> th.call.op, gpio |-> th.call.gpio, arg |-> th.call.arg]
                   /\ ret' = done.ret
              ELSE UNCHANGED <<handler, wake_type, last, ret>>
    /\ UNCHANGED <<io, nops, boot>>

NextRace == \E t \in 1..2 : RaceRead(t) \/ RaceWrite(t)

SpecRace == InitRace /\ [][NextRace]_vars

\* The registers after the two calls made one after the other, from mem0.
Serial(m0, c1, c2) ==
    LET s0 == [mem |-> m0, io |-> <<>>, handler |-> handler, wake_type |-> wake_type]
    IN  RunCall(RunCall(s0, c1).s, c2).s.mem

\* -------------------------------------------------------------------- C18
\* C18: whatever the interleaving of the register accesses of a call on pin
\* p and a call on pin q # p, the registers end as they do when the two
\* calls are made one after the other.
C18_NoContention ==
    (thr # <<>> /\ ~Running(1) /\ ~Running(2)) =>
        \/ mem = Serial(thr.mem0, thr.run[1].call, thr.run[2].call)
        \/ mem = Serial(thr.mem0, thr.run[2].call, thr.run[1].call)

\* ==================================================================== probe
\* tegra_gpio_chip.ngpio = MAX_PORTS * MAX_PINS_PER_PORT
Gpios == 0..(MAX_PORTS * MAX_PINS_PER_PORT - 1)

\* Number of IORESOURCE_IRQ resources the platform device carries.
BankCounts == {0, 1, 6, 7}

\* The pins for which irq_create_mapping returns 0.
MapFailures == {{}, {3}}

\* What is_gpio_accessible and the masking of line 754 address.
ProbeAddrs == {ScrAddr(g) : g \in Gpios} \cup {RegAddr(g, GPIO_ENB_CONFIG_REG) : g \in Gpios}

\* boot.pc         the next step of tegra_gpio_probe, "done" once it returned
\* boot.ret        its result
\* boot.bank_count tegra_gpio_bank_count
\* boot.domain     irq_domain exists
\* boot.created    pins whose mapping irq_create_mapping created
\* boot.mappings   pins whose mapping exists
\* boot.chip_data  index into tegra_gpio_controllers stored by irq_set_chip_data
\* boot.registered gpiochip_add succeeded
\* boot.chained    controllers whose chained handler is installed
Boot0(banks, nomap) ==
    [pc |-> "count", ret |-> 0, banks |-> banks, nomap |-> nomap,
     bank_count |-> 0, domain |-> FALSE, created |-> {}, mappings |-> {},
     chip_data |-> <<>>, registered |-> FALSE, chained |-> {}]

\* What the security registers hold at probe: full access for every pin,
\* nothing for any, or full access for the even pins of each port and one
\* capability bit short of it for the odd ones.
ScrAtProbe(how, g) ==
    CASE how = "open" -> GPIO_FULL_ACCESS
      [] how = "closed" -> {}
      [] how = "mixed" -> IF GPIO_PIN(g) % 2 = 0 THEN BitPos
                          ELSE GPIO_FULL_ACCESS \ {9}

InitProbe ==
    /\ \E how \in {"open", "closed", "mixed"}, r0 \in RegInit :
          mem = [a \in ProbeAddrs |->
                   IF \E g \in Gpios : a = ScrAddr(g)
                   THEN ScrAtProbe(how, CHOOSE g \in Gpios : a = ScrAddr(g))
                   ELSE r0]
    /\ \E banks \in BankCounts, nomap \in MapFailures : boot = Boot0(banks, nomap)
    /\ io = <<>>
    /\ handler = [g \in Pins |-> "handle_bad_irq"]
    /\ wake_type = [w \in WakeSlots |-> IRQ_TYPE_NONE]
    /\ last = [op |-> "probe", gpio |-> 0, arg |-> <<>>]
    /\ ret = 0
    /\ nops = 0
    /\ thr = <<>>

\* tegra_gpio_probe returns r.
ProbeReturn(b, r) == [b EXCEPT !.pc = "done", !.ret = r]

ProbeStep(b) ==
    /\ boot' = b
    /\ ret' = IF b.pc = "done" THEN b.ret ELSE ret
    /\ UNCHANGED <<io, wake_type, last, nops, thr>>

\* lines 669-679: count the interrupt resources
ProbeCount ==
    /\ boot.pc = "count"
    /\ LET b == [boot EXCEPT !.bank_count = boot.banks]
       IN  ProbeStep(IF b.bank_count = 0 THEN ProbeReturn(b, -ENODEV)
                     ELSE [b EXCEPT !.pc = "alloc"])
    /\ UNCHANGED <<mem, handler>>

\* lines 681-707: the three allocations
ProbeAlloc ==
    /\ boot.pc = "alloc"
    /\ \E r \in {0, -ENOMEM, -ENODEV} :
          ProbeStep(IF r # 0 THEN ProbeReturn(boot, r)
                    ELSE [boot EXCEPT !.pc = "ioremap"])
    /\ UNCHANGED <<mem, handler>>

\* lines 709-726: map the register windows
ProbeIoremap ==
    /\ boot.pc = "ioremap"
    /\ \E r \in {0, -EBUSY} :
          ProbeStep(IF r # 0 THEN ProbeReturn(boot, r)
                    ELSE [boot EXCEPT !.pc = "controllers"])
    /\ UNCHANGED <<mem, handler>>

\* lines 728-746: fill the controller records, create the domain
ProbeDomain ==
    /\ boot.pc = "controllers"
    /\ \E ok \in BOOLEAN :
          ProbeStep(IF ~ok THEN ProbeReturn(boot, -ENODEV)
                    ELSE [boot EXCEPT !.domain = TRUE, !.pc = "map"])
    /\ UNCHANGED <<mem, handler>>

\* tg_cont = &tegra_gpio_controllers[cont_id], as the index
ControllerOf(gpio) == tegra_gpio_cinfo[GPIO_PORT(gpio)].cont_id

\* lines 748-761: one mapping per pin, interrupt of accessible pins masked,
\* back-reference and simple handler stored with every mapping created
ProbeMap ==
    /\ boot.pc = "map"
    /\ LET made == Gpios \ boot.nomap
           masked == {RegAddr(g, GPIO_ENB_CONFIG_REG) :
                        g \in {x \in Gpios : is_gpio_accessible(Cur, x).val}}
       IN  /\ mem' = [a \in ProbeAddrs |->
                        IF a \in masked THEN mem[a] \ Bits(GPIO_INT_FUNC_BIT)
                        ELSE mem[a]]
           /\ handler' = [g \in Pins |->
                            IF g \in made THEN "handle_simple_irq" ELSE handler[g]]
           /\ ProbeStep([boot EXCEPT !.created = made, !.mappings = made,
                                     !.chip_data = [g \in made |-> ControllerOf(g)],
                                     !.pc = "register"])

\* Faulty variant: the domain is left in place.
gpiochip_add_failed_KeepDomain(b, r) ==
    ProbeReturn([b EXCEPT !.mappings = @ \ {g \in Gpios : g \in b.mappings}], r)

\* lines 764-772: dispose every mapping found, remove the domain, return ret
gpiochip_add_failed(b, r) ==
    ProbeReturn([b EXCEPT !.mappings = @ \ {g \in Gpios : g \in b.mappings},
                          !.domain = FALSE], r)

\* lines 763-773: gpiochip_add
ProbeRegister ==
    /\ boot.pc = "register"
    /\ \E r \in {0, -EINVAL} :
          ProbeStep(IF r < 0 THEN gpiochip_add_failed(boot, r)
                    ELSE [boot EXCEPT !.registered = TRUE, !.pc = "chain"])
    /\ UNCHANGED <<mem, handler>>

\* lines 775-784: chained handlers, wake table, return 0
ProbeInstall ==
    /\ boot.pc = "chain"
    /\ ProbeStep(ProbeReturn([boot EXCEPT !.chained = 0..(boot.bank_count - 1)], 0))
    /\ UNCHANGED <<mem, handler>>

NextProbe ==
    \/ ProbeCount
    \/ ProbeAlloc
    \/ ProbeIoremap
    \/ ProbeDomain
    \/ ProbeMap
    \/ ProbeRegister
    \/ ProbeInstall

SpecProbe == InitProbe /\ [][NextProbe]_vars

\* -------------------------------------------------------------------- C19
\* C19: when tegra_gpio_probe has returned an error, no mapping it created
\* exists, the interrupt domain does not exist and no chained handler is
\* installed; and a chained handler is installed only when every earlier
\* step succeeded (domain created, chip registered).
C19_ErrorLeavesNothing ==
    /\ (boot.pc = "done" /\ boot.ret # 0) =>
          /\ boot.mappings = {}
          /\ ~boot.domain
          /\ boot.chained = {}
    /\ boot.chained # {} =>
          /\ boot.domain
          /\ boot.registered
          /\ boot.ret = 0

\* gpiochip_add failed after the mappings had been created.
C19_Witness ==
    /\ boot.pc = "done"
    /\ boot.ret = -EINVAL
    /\ boot.created # {}
    /\ boot.mappings = {}
    /\ ~boot.domain

\* -------------------------------------------------------------------- C20
\* C20: the back-reference stored with the mapping of every pin is the
\* index of a controller record in 0 .. tegra_gpio_bank_count - 1, the
\* cont_id of the pin's port.
C20_BackReferenceInArray ==
    \A g \in DOMAIN boot.chip_data :
        /\ boot.chip_data[g] \in 0..(boot.bank_count - 1)
        /\ boot.chip_data[g] = tegra_gpio_cinfo[GPIO_PORT(g)].cont_id

\* ============================================================ trigger type
\* Bits of the configuration register a trigger-type change may write:
\* enable (0), trigger kind (2, 3), polarity (4).
TypeBits == {0, 2, 3, 4}

\* The interrupt chip alone: trigger type changes among masks and unmasks.
NextType ==
    \/ IrqMask
    \/ IrqUnmask
    \/ IrqSetType

SpecType == Init /\ [][NextType]_vars

\* -------------------------------------------------------------------- C22
\* C22: a tegra_gpio_irq_set_type that returns 0 leaves every bit of the
\* pin's configuration register other than the enable bit, the trigger-kind
\* field and the polarity bit as it was (so the interrupt-enable bit 6, the
\* direction bit 1 and the debounce bit 5 keep their values), and the enable
\* bit ends set.
C22_TypeChangeFrame ==
    [][(last'.op = "irq_set_type" /\ ret' = 0) =>
          LET a == RegAddr(last'.gpio, GPIO_ENB_CONFIG_REG)
          IN  /\ mem'[a] \ TypeBits = mem[a] \ TypeBits
              /\ 0 \in mem'[a]]_vars

\* Level-low was set on a pin that was masked with direction and debounce
\* bits set: kind 3 became 1 and the three bits are as they were.
C22_Witness ==
    /\ last.op = "irq_set_type"
    /\ last.arg = <<IRQ_TYPE_LEVEL_LOW>>
    /\ ret = 0
    /\ nops = 1
    /\ TriggerKind(Cnf(last.gpio)) = 1
    /\ 6 \notin Cnf(last.gpio)
    /\ {0, 1, 5} \subseteq Cnf(last.gpio)

\* ------------------------------------------------- two calls on one pin
\* Two tegra_gpio_irq_set_type calls on A6 with different supported types.
TypePairs ==
    {<<a, b>> \in SupportedTypes \X SupportedTypes : a # b}

SetTypeCall(type) ==
    [op |-> "irq_set_type", gpio |-> TEGRA_GPIO(0, 6), arg |-> type]

InitRaceType ==
    /\ \E r0 \in RegInit : mem = [a \in RaceAddrs |-> r0]
    /\ \E p \in TypePairs :
          thr = [mem0 |-> mem,
                 run |-> <<Thread(SetTypeCall(p[1])), Thread(SetTypeCall(p[2]))>>,
                 order |-> <<>>]
    /\ io = <<>>
    /\ handler = [g \in Pins |-> "handle_simple_irq"]
    /\ wake_type = [w \in WakeSlots |-> IRQ_TYPE_NONE]
    /\ last = [op |-> "probe", gpio |-> 0, arg |-> <<>>]
    /\ ret = 0
    /\ nops = 0
    /\ boot = [pc |-> "done", ret |-> 0]

SpecRaceType == InitRaceType /\ [][NextRace]_vars

BothReturned == thr # <<>> /\ ~Running(1) /\ ~Running(2)

\* The accesses of one processor fell between accesses of the other.
Interleaved ==
    \E i, j, k \in 1..Len(thr.order) :
        i < j /\ j < k /\ thr.order[i] = thr.order[k] /\ thr.order[j] # thr.order[i]

\* <<trigger kind, polarity>> held by the configuration register of A6
FieldsA6 ==
    LET v == mem[RegAddr(TEGRA_GPIO(0, 6), GPIO_ENB_CONFIG_REG)]
    IN  <<TriggerKind(v), Polarity(v)>>

RequestedFields ==
    {TriggerTable(thr.run[1].call.arg), TriggerTable(thr.run[2].call.arg)}

\* -------------------------------------------------------------------- C21
\* C21 as stated: two tegra_gpio_irq_set_type calls with different supported
\* types whose register accesses interleave end, once both have returned,
\* with a trigger kind and polarity that encode neither requested type.
C21_MergedPattern ==
    (BothReturned /\ Interleaved) => FieldsA6 \notin RequestedFields

\* C21 amended: however the register accesses of the two calls interleave,
\* once both have returned the trigger kind and polarity are the table
\* encoding of one of the two requested types.
C21_OneOfTheTwo ==
    BothReturned => FieldsA6 \in RequestedFields

\* Both calls read the register before either wrote it, and the register
\* ends with the type of the first processor although the second wrote last.
C21_Witness ==
    /\ BothReturned
    /\ Len(thr.order) = 8
    /\ thr.order[1] = 1 /\ thr.order[2] = 2
    /\ thr.order[8] = 2
    /\ FieldsA6 = TriggerTable(thr.run[1].call.arg)
    /\ 0 \in mem[RegAddr(TEGRA_GPIO(0, 6), GPIO_ENB_CONFIG_REG)]

\* ------------------------------------------------------- masking at probe
\* The pin is wired, its port has a controller and its security register
\* grants the four capability bits.
WiredAndOpen(g) ==
    /\ ~OffTopology(g)
    /\ {28, 27, 1, 9} \subseteq mem[ScrAddr(g)]

\* -------------------------------------------------------------------- C23
\* C23: tegra_gpio_probe changes registers in its mapping loop only; there
\* the configuration register of every accessible pin loses bit 6 and keeps
\* its other bits, and the configuration register of every other pin and
\* every security register stay as they were.  Nothing writes afterwards, so
\* this is the register state when probe returns 0.
C23_MaskedAtProbe ==
    [][IF boot.pc = "map"
       THEN /\ \A g \in Gpios :
                 mem'[RegAddr(g, GPIO_ENB_CONFIG_REG)] =
                     IF WiredAndOpen(g)
                     THEN mem[RegAddr(g, GPIO_ENB_CONFIG_REG)] \ {6}
                     ELSE mem[RegAddr(g, GPIO_ENB_CONFIG_REG)]
            /\ \A g \in Gpios : mem'[ScrAddr(g)] = mem[ScrAddr(g)]
       ELSE mem' = mem]_vars

\* Probe returned 0 with A6 masked, its other bits still set, and the
\* registers of A5 (security register one bit short) and of the unwired A7
\* as they were.
C23_Witness ==
    /\ boot.pc = "done"
    /\ boot.ret = 0
    /\ WiredAndOpen(TEGRA_GPIO(0, 6))
    /\ Cnf(TEGRA_GPIO(0, 6)) = BitPos \ {6}
    /\ ~WiredAndOpen(TEGRA_GPIO(0, 5))
    /\ Cnf(TEGRA_GPIO(0, 5)) = BitPos
    /\ Cnf(TEGRA_GPIO(0, 7)) = BitPos

====
